---- MODULE Spec2Model ----
(***************************************************************************)
(* Model of src/chess.py: the ChessGame event loop (ChessGame.run), its    *)
(* handlers, the AI_MOVE_EVENT timer and the two collaborators the         *)
(* handlers call: the rules library (chess.Board) and the Stockfish        *)
(* wrapper.                                                                *)
(*                                                                         *)
(* The pygame event queue is FIFO.  The AI_MOVE_EVENT events in it are     *)
(* counted (queueAI: posted, not yet fetched; batchAI: in the list that    *)
(* pygame.event.get() returned, not yet iterated).  The user's events are  *)
(* inputs: an event handled while the loop iterates a batch is an event    *)
(* that batch contained, and, the AI_MOVE_EVENT events being all alike,    *)
(* every order of handling in which the model handles user events and      *)
(* AI_MOVE_EVENT events is an order the FIFO queue produces (the user      *)
(* event was posted before the AI_MOVE_EVENT handled after it).            *)
(***************************************************************************)
EXTENDS Integers, Sequences, FiniteSets, TLC

\* ------------------------------------------------------------------ bounds
\* Most half-moves on the board's move stack.
MaxPly == 4
\* Most AI_MOVE_EVENT events posted and not yet handled.
MaxPending == 2

\* --------------------------------------------------------------- constants
BOARD_SIZE == 400
WIDTH == 800
HEIGHT == 400
SQUARE_SIZE == BOARD_SIZE \div 8

None == "None"
\* self.selected_square = None, self.last_ai_move = None
NoSquare == 0 - 1

\* ------------------------------------------------- the rules library (chess)
\* python-chess: squares 0..63, square = rank * 8 + file, a1 = 0, h8 = 63;
\* Board.turn is True for white.  Pieces are their symbols, white in upper
\* case; None is the empty square.
SQUARES == 0 .. 63
WHITE == TRUE
BLACK == FALSE
WhitePieces == {"P", "N", "B", "R", "Q", "K"}
BlackPieces == {"p", "n", "b", "r", "q", "k"}
PROMOTIONS == {"n", "b", "r", "q"}

square_file(sq) == sq % 8
square_rank(sq) == sq \div 8
square(f, r) == r * 8 + f

Abs(n) == IF n < 0 THEN 0 - n ELSE n
Sign(n) == IF n < 0 THEN 0 - 1 ELSE IF n > 0 THEN 1 ELSE 0
Max2(a, b) == IF a > b THEN a ELSE b

\* piece.color
color_of(p) == p \in WhitePieces
\* piece.symbol().upper()
piece_type(p) ==
  CASE p \in {"P", "p"} -> "P" [] p \in {"N", "n"} -> "N" [] p \in {"B", "b"} -> "B"
    [] p \in {"R", "r"} -> "R" [] p \in {"Q", "q"} -> "Q" [] p \in {"K", "k"} -> "K"

BackRank == <<"R", "N", "B", "Q", "K", "B", "N", "R">>
BackRankBlack == <<"r", "n", "b", "q", "k", "b", "n", "r">>
\* chess.Board(): the starting position.
StartPieces ==
  [sq \in SQUARES |->
     CASE square_rank(sq) = 0 -> BackRank[square_file(sq) + 1]
       [] square_rank(sq) = 1 -> "P"
       [] square_rank(sq) = 6 -> "p"
       [] square_rank(sq) = 7 -> BackRankBlack[square_file(sq) + 1]
       [] OTHER -> None]

\* chess.Board(): the position, the side to move, the moves played and the
\* positions they were played from (what pop() restores).
StartBoard ==
  [pieces |-> StartPieces, turn |-> WHITE, over |-> FALSE,
   move_stack |-> <<>>, stack |-> <<>>]

\* chess.Move(from_square, to_square, promotion=None)
Move(f, t, p) == [from_square |-> f, to_square |-> t, promotion |-> p]
NoMoveYet == Move(NoSquare, NoSquare, None)

\* The squares strictly between two squares on a line are empty.
PathClear(pcs, f, t) ==
  LET df == square_file(t) - square_file(f)
      dr == square_rank(t) - square_rank(f)
      n  == Max2(Abs(df), Abs(dr))
  IN \A k \in 1 .. (n - 1) :
       pcs[square(square_file(f) + k * Sign(df), square_rank(f) + k * Sign(dr))] = None

\* The piece on f attacks the square t (Board.attacks_mask).
Attacks(pcs, f, t) ==
  LET p  == pcs[f]
      df == square_file(t) - square_file(f)
      dr == square_rank(t) - square_rank(f)
  IN /\ p # None
     /\ f # t
     /\ CASE piece_type(p) = "P" ->
               Abs(df) = 1 /\ dr = (IF color_of(p) THEN 1 ELSE 0 - 1)
          [] piece_type(p) = "N" ->
               {Abs(df), Abs(dr)} = {1, 2}
          [] piece_type(p) = "K" ->
               Max2(Abs(df), Abs(dr)) = 1
          [] piece_type(p) = "B" ->
               Abs(df) = Abs(dr) /\ PathClear(pcs, f, t)
          [] piece_type(p) = "R" ->
               (df = 0 \/ dr = 0) /\ PathClear(pcs, f, t)
          [] piece_type(p) = "Q" ->
               (df = 0 \/ dr = 0 \/ Abs(df) = Abs(dr)) /\ PathClear(pcs, f, t)

\* Board.is_pseudo_legal(move), without castling and en passant: no run of
\* this model moves a king, a rook or a pawn to its fifth rank (see the
\* inputs ClickPos and EngineReplies).
is_pseudo_legal(b, m) ==
  LET pcs == b.pieces
      f   == m.from_square
      t   == m.to_square
      p   == pcs[f]
      df  == square_file(t) - square_file(f)
      dr  == square_rank(t) - square_rank(f)
      fwd == IF b.turn THEN 1 ELSE 0 - 1
      home == IF b.turn THEN 1 ELSE 6
      last == IF b.turn THEN 7 ELSE 0
  IN /\ p # None
     /\ color_of(p) = b.turn
     /\ IF m.promotion # None
          THEN piece_type(p) = "P" /\ square_rank(t) = last
          ELSE ~(piece_type(p) = "P" /\ square_rank(t) = last)
     /\ ~(pcs[t] # None /\ color_of(pcs[t]) = b.turn)
     /\ IF piece_type(p) = "P"
          THEN \/ df = 0 /\ dr = fwd /\ pcs[t] = None
               \/ /\ df = 0 /\ dr = 2 * fwd /\ square_rank(f) = home
                  /\ pcs[t] = None /\ pcs[square(square_file(f), square_rank(f) + fwd)] = None
               \/ Abs(df) = 1 /\ dr = fwd /\ pcs[t] # None
          ELSE Attacks(pcs, f, t)

\* The placement after a move (the piece-moving part of Board.push).
PiecesAfter(pcs, c, m) ==
  LET p == pcs[m.from_square]
      q == IF m.promotion = None THEN p
           ELSE IF c THEN CHOOSE w \in WhitePieces :
                            piece_type(w) = piece_type(m.promotion)
                ELSE m.promotion
  IN [pcs EXCEPT ![m.from_square] = None, ![m.to_square] = q]

\* Board.is_check for the side c: its king is attacked.
InCheck(pcs, c) ==
  \E k \in SQUARES :
    /\ pcs[k] = (IF c THEN "K" ELSE "k")
    /\ \E a \in SQUARES : pcs[a] # None /\ color_of(pcs[a]) # c /\ Attacks(pcs, a, k)

\* move in board.legal_moves (Board.is_legal)
is_legal(b, m) ==
  /\ m.from_square \in SQUARES
  /\ m.to_square \in SQUARES
  /\ is_pseudo_legal(b, m)
  /\ ~InCheck(PiecesAfter(b.pieces, b.turn, m), b.turn)

\* No move is legal for the side c to move: checkmate or stalemate.  A
\* pawn's step forward is looked for first: most positions have one.
NoLegalMove(pcs, c) ==
  LET b == [pieces |-> pcs, turn |-> c]
      fwd == IF c THEN 8 ELSE 0 - 8
  IN /\ ~\E f \in 8 .. 55 :
          /\ pcs[f] = (IF c THEN "P" ELSE "p")
          /\ pcs[f + fwd] = None
          /\ f + fwd \in 8 .. 55
          /\ is_legal(b, Move(f, f + fwd, None))
     /\ ~\E f \in SQUARES :
          /\ pcs[f] # None
          /\ color_of(pcs[f]) = c
          /\ \E t \in SQUARES :
               \E p \in (IF piece_type(pcs[f]) = "P" /\ square_rank(t) \in {0, 7}
                          THEN PROMOTIONS ELSE {None}) :
                 is_legal(b, Move(f, t, p))

\* Board.is_game_over(): checkmate or stalemate.  Its other endings (too
\* little material, repeated positions, the 75-move rule) take more
\* half-moves than MaxPly allows.  It is a function of the position: the
\* board carries its value, worked out when the position is reached.
is_game_over(b) == b.over

\* Board.piece_at(square)
piece_at(b, sq) == b.pieces[sq]

\* The positions that legal moves between the squares of InputSquares reach
\* from the start in at most n half-moves, and whether each has no legal
\* move: worked out once, and looked up by Over.
InputSquares == {13, 14, 21, 30, 52, 36, 59, 31}
RECURSIVE PositionsWithin(_)
PositionsWithin(n) ==
  IF n = 0 THEN {[pieces |-> StartPieces, turn |-> WHITE]}
  ELSE LET prev == PositionsWithin(n - 1)
       IN prev \cup
          { [pieces |-> PiecesAfter(b.pieces, b.turn, Move(f, t, None)), turn |-> ~b.turn] :
              <<b, f, t>> \in { x \in prev \X InputSquares \X InputSquares :
                                  is_legal(x[1], Move(x[2], x[3], None)) } }
KnownPositions == PositionsWithin(MaxPly)
KnownOver == { b \in KnownPositions : NoLegalMove(b.pieces, b.turn) }

\* The position pcs with c to move is checkmate or stalemate.
Over(pcs, c) ==
  LET b == [pieces |-> pcs, turn |-> c]
  IN IF b \in KnownPositions THEN b \in KnownOver ELSE NoLegalMove(pcs, c)

\* Board.push(move): push does not test legality.
push(b, m) ==
  LET after == PiecesAfter(b.pieces, b.turn, m)
  IN [pieces     |-> after,
      turn       |-> ~b.turn,
      over       |-> Over(after, ~b.turn),
      move_stack |-> Append(b.move_stack, m),
      stack      |-> Append(b.stack, [pieces |-> b.pieces, turn |-> b.turn, over |-> b.over])]

\* Board.pop()
pop(b) ==
  LET n == Len(b.move_stack)
  IN [pieces     |-> b.stack[n].pieces,
      turn       |-> b.stack[n].turn,
      over       |-> b.stack[n].over,
      move_stack |-> SubSeq(b.move_stack, 1, n - 1),
      stack      |-> SubSeq(b.stack, 1, n - 1)]

\* Board.reset()
reset(b) == StartBoard

\* ------------------------------------------------ chess.Move.from_uci
\* A UCI string is the sequence of its characters.
FILE_NAMES == <<"a", "b", "c", "d", "e", "f", "g", "h">>
RANK_NAMES == <<"1", "2", "3", "4", "5", "6", "7", "8">>
InvalidMoveError == "InvalidMoveError"
KeyError == "KeyError"

\* SQUARE_NAMES.index(name): the square, or -1 where index() raises ValueError.
SquareNamed(fch, rch) ==
  IF (\E i \in 1 .. 8 : FILE_NAMES[i] = fch) /\ (\E j \in 1 .. 8 : RANK_NAMES[j] = rch)
    THEN square((CHOOSE i \in 1 .. 8 : FILE_NAMES[i] = fch) - 1,
                (CHOOSE j \in 1 .. 8 : RANK_NAMES[j] = rch) - 1)
    ELSE 0 - 1

\* chess.Move.from_uci(uci): [raised, move].  "0000" is the null move
\* (from a1 to a1), which no position has as a legal move.
from_uci(uci) ==
  LET bad == [raised |-> InvalidMoveError, move |-> NoMoveYet]
  IN IF uci = <<"0", "0", "0", "0">>
       THEN [raised |-> None, move |-> Move(0, 0, None)]
     ELSE IF Len(uci) \in {4, 5}
       THEN LET f == SquareNamed(uci[1], uci[2])
                t == SquareNamed(uci[3], uci[4])
                okp == Len(uci) = 4 \/ uci[5] \in PROMOTIONS \cup {"p", "k"}
            IN IF f < 0 \/ t < 0 \/ ~okp \/ f = t
                 THEN bad
                 ELSE [raised |-> None,
                       move |-> Move(f, t, IF Len(uci) = 5 THEN uci[5] ELSE None)]
     ELSE bad

\* ------------------------------------------------------- the advisor's answers
\* What one call of Stockfish.get_best_move() does: it raises, it returns
\* None, or it returns a string.
Raises == [kind |-> "raise", uci |-> <<>>]
NoMove == [kind |-> "none", uci |-> <<>>]
Uci(s) == [kind |-> "uci", uci |-> s]
EngineReplies ==
  { Raises, NoMove,
    Uci(<<"e", "7", "e", "5">>),    \* legal for black from the start
    Uci(<<"d", "8", "h", "4">>),    \* the mate after f3 e5 g4
    Uci(<<"g", "2", "g", "4">>),    \* legal for white
    Uci(<<"e", "2", "e", "5">>),    \* well formed, never legal
    Uci(<<"e", "9", "e", "5">>) }   \* malformed: no square e9

\* What one call of Stockfish.get_evaluation() does: it raises, or it returns
\* a dict.  The wrapper returns the empty dict when the engine printed no
\* score line.
EvalRaises == [raises |-> TRUE, type |-> None, value |-> 0]
Cp(v) == [raises |-> FALSE, type |-> "cp", value |-> v]
Mate(v) == [raises |-> FALSE, type |-> "mate", value |-> v]
NoType == [raises |-> FALSE, type |-> None, value |-> 0]
EvalAnswers == { EvalRaises, Cp(30), NoType }

\* ------------------------------------------------------------ ChessGame
\* The fields of self that the handlers read and write; timer is whether
\* pygame's AI_MOVE_EVENT timer is armed; raised is the exception that left
\* the handler, if any; path names the branch the handler took; asked is
\* which of the advisor's calls the handler made.
Clamp(lo, hi, v) == IF v < lo THEN lo ELSE IF v > hi THEN hi ELSE v

\* get_evaluation_score as it would be without max(-5.0, min(5.0, raw_score)).
get_evaluation_score_unclamped(self, ev) ==
  IF self.stockfish # None
    THEN IF ev.raises
           THEN [raised |-> None, score |-> 0]
         ELSE IF ev.type = None
           THEN [raised |-> KeyError, score |-> 0]
         ELSE LET raw_score ==
                    IF ev.type = "cp" THEN ev.value
                    ELSE IF ev.type = "mate"
                      THEN (IF ev.value > 0 THEN 500 ELSE 0 - 500)
                    ELSE 0
              IN [raised |-> None, score |-> raw_score]
    ELSE [raised |-> None, score |-> 0]

\* ChessGame.get_evaluation_score: [raised, score], the score in hundredths
\* of a pawn (5.0 is 500; a centipawn value v / 100.0 is v hundredths).
get_evaluation_score(self, ev) ==
  IF self.stockfish # None
    THEN IF ev.raises
           THEN [raised |-> None, score |-> 0]
         ELSE IF ev.type = None
           THEN [raised |-> KeyError, score |-> 0]
         ELSE LET raw_score ==
                    IF ev.type = "cp" THEN ev.value
                    ELSE IF ev.type = "mate"
                      THEN (IF ev.value > 0 THEN 500 ELSE 0 - 500)
                    ELSE 0
              IN [raised |-> None, score |-> Clamp(0 - 500, 500, raw_score)]
    ELSE [raised |-> None, score |-> 0]

\* self.current_score = self.get_evaluation_score()
UpdateScore(self, ev) ==
  LET r == get_evaluation_score(self, ev)
      asked == self.asked \cup (IF self.stockfish # None THEN {"evaluation"} ELSE {})
  IN IF r.raised # None
       THEN [self EXCEPT !.raised = r.raised, !.asked = asked]
       ELSE [self EXCEPT !.current_score = r.score, !.asked = asked]

\* schedule_ai_move as it would be without self.ai_move_scheduled = True.
schedule_ai_move_unflagged(self) ==
  [self EXCEPT !.timer = TRUE]

\* ChessGame.schedule_ai_move: pygame.time.set_timer(AI_MOVE_EVENT, delay_ms)
\* arms the timer, replacing the one that was armed.
schedule_ai_move(self) ==
  [self EXCEPT !.timer = TRUE, !.ai_move_scheduled = TRUE]

\* ai_move as it would be without the test "move in self.board.legal_moves".
ai_move_unchecked(self, bm) ==
  IF self.stockfish # None
    THEN LET best_uci == IF bm.kind = "uci" THEN bm.uci ELSE <<>>
             s0 == [self EXCEPT !.asked = self.asked \cup {"best_move"}]
         IN IF best_uci # <<>>
              THEN LET r == from_uci(best_uci)
                   IN IF r.raised # None
                        THEN [s0 EXCEPT !.raised = r.raised, !.path = "malformed"]
                        ELSE [s0 EXCEPT !.board = push(s0.board, r.move),
                                        !.last_ai_move = r.move,
                                        !.path = "applied"]
              ELSE [s0 EXCEPT !.path = "no_move"]
    ELSE [self EXCEPT !.path = "no_engine"]

\* ChessGame.ai_move
ai_move(self, bm) ==
  IF self.stockfish # None
    THEN LET best_uci == IF bm.kind = "uci" THEN bm.uci ELSE <<>>
             s0 == [self EXCEPT !.asked = self.asked \cup {"best_move"}]
         IN IF best_uci # <<>>
              THEN LET r == from_uci(best_uci)
                   IN IF r.raised # None
                        THEN [s0 EXCEPT !.raised = r.raised, !.path = "malformed"]
                      ELSE IF is_legal(s0.board, r.move)
                        THEN [s0 EXCEPT !.board = push(s0.board, r.move),
                                        !.last_ai_move = r.move,
                                        !.path = "applied"]
                      ELSE [s0 EXCEPT !.path = "illegal"]
              ELSE [s0 EXCEPT !.path = "no_move"]
    ELSE [self EXCEPT !.path = "no_engine"]

\* The pixel-to-square lines as they would be without chess_row = 7 - row.
square_clicked_unflipped(pos) ==
  LET col == pos[1] \div SQUARE_SIZE
      row == pos[2] \div SQUARE_SIZE
  IN row * 8 + col

\* ChessGame.highlight_square: the top left corner of the square's rectangle.
highlight_square(sq) ==
  LET col == sq % 8
      row == 7 - (sq \div 8)
  IN <<col * SQUARE_SIZE, row * SQUARE_SIZE>>

\* The square a pointer press is on (run, the pixel-to-square lines).
square_clicked(pos) ==
  LET col == pos[1] \div SQUARE_SIZE
      row == pos[2] \div SQUARE_SIZE
      chess_row == 7 - row
  IN chess_row * 8 + col

\* Each handler is its part before the evaluation is asked for, then its
\* part from there on, which is where the advisor's answer ev comes in.

\* The pointer handler as it would be if an illegal candidate only left the
\* selection standing: the press is ignored, the selection kept.
MouseButtonDownKeepsSelection(self, pos) ==
  IF is_game_over(self.board)
    THEN [self EXCEPT !.path = "game_over"]
  ELSE IF ~(pos[1] < BOARD_SIZE /\ pos[2] < BOARD_SIZE)
    THEN [self EXCEPT !.path = "outside"]
  ELSE LET sq == square_clicked(pos)
       IN IF self.selected_square = NoSquare
            THEN LET piece == piece_at(self.board, sq)
                 IN IF piece # None /\ color_of(piece) = self.board.turn
                      THEN [self EXCEPT !.selected_square = sq, !.path = "selected"]
                      ELSE [self EXCEPT !.path = "not_selected"]
            ELSE LET move == Move(self.selected_square, sq, None)
                 IN IF is_legal(self.board, move)
                      THEN [self EXCEPT !.board = push(self.board, move),
                                        !.selected_square = NoSquare,
                                        !.path = "moved"]
                      ELSE [self EXCEPT !.path = "invalid"]

\* The pointer handler as it would be without "not self.board.is_game_over()".
MouseButtonDownUnguarded(self, pos) ==
  IF ~(pos[1] < BOARD_SIZE /\ pos[2] < BOARD_SIZE)
    THEN [self EXCEPT !.path = "outside"]
  ELSE LET sq == square_clicked(pos)
       IN IF self.selected_square = NoSquare
            THEN LET piece == piece_at(self.board, sq)
                 IN IF piece # None /\ color_of(piece) = self.board.turn
                      THEN [self EXCEPT !.selected_square = sq, !.path = "selected"]
                      ELSE [self EXCEPT !.path = "not_selected"]
            ELSE LET move == Move(self.selected_square, sq, None)
                 IN IF is_legal(self.board, move)
                      THEN [self EXCEPT !.board = push(self.board, move),
                                        !.selected_square = NoSquare,
                                        !.path = "moved"]
                      ELSE [self EXCEPT !.selected_square = NoSquare,
                                        !.path = "invalid"]

\* run: event.type == pygame.MOUSEBUTTONDOWN, down to the move's push.
MouseButtonDownBegin(self, pos) ==
  IF is_game_over(self.board)
    THEN [self EXCEPT !.path = "game_over"]
  ELSE IF ~(pos[1] < BOARD_SIZE /\ pos[2] < BOARD_SIZE)
    THEN [self EXCEPT !.path = "outside"]
  ELSE LET sq == square_clicked(pos)
       IN IF self.selected_square = NoSquare
            THEN LET piece == piece_at(self.board, sq)
                 IN IF piece # None /\ color_of(piece) = self.board.turn
                      THEN [self EXCEPT !.selected_square = sq, !.path = "selected"]
                      ELSE [self EXCEPT !.path = "not_selected"]
            ELSE LET move == Move(self.selected_square, sq, None)
                 IN IF is_legal(self.board, move)
                      THEN [self EXCEPT !.board = push(self.board, move),
                                        !.selected_square = NoSquare,
                                        !.path = "moved"]
                      ELSE [self EXCEPT !.selected_square = NoSquare,
                                        !.path = "invalid"]

\* run: after the push, the evaluation and the countdown.
MouseButtonDownEnd(s1, ev) ==
  IF s1.path = "moved"
    THEN LET s2 == UpdateScore(s1, ev)
         IN IF s2.raised # None THEN s2
            ELSE IF ~is_game_over(s2.board) THEN schedule_ai_move(s2)
            ELSE s2
    ELSE s1

OnMouseButtonDown(self, pos, ev) ==
  MouseButtonDownEnd(MouseButtonDownBegin(self, pos), ev)

\* The key handler as it would be if undo were refused once the game is over.
KeyDownUndoRefusedWhenOver(self, key) ==
  IF key = "K_u"
    THEN IF Len(self.board.move_stack) >= 1 /\ ~is_game_over(self.board)
           THEN [self EXCEPT !.board = pop(self.board), !.path = "undone"]
           ELSE [self EXCEPT !.path = "nothing_to_undo"]
  ELSE IF key = "K_r"
    THEN [self EXCEPT !.board = reset(self.board),
                      !.selected_square = NoSquare,
                      !.last_ai_move = NoMoveYet,
                      !.path = "restarted"]
  ELSE [self EXCEPT !.path = "ignored"]

\* The key handler as it would be without "len(self.board.move_stack) >= 1":
\* Board.pop() on an empty move stack raises IndexError.
KeyDownUndoUnguarded(self, key) ==
  IF key = "K_u"
    THEN IF Len(self.board.move_stack) >= 1
           THEN [self EXCEPT !.board = pop(self.board), !.path = "undone"]
           ELSE [self EXCEPT !.raised = "IndexError", !.path = "nothing_to_undo"]
  ELSE IF key = "K_r"
    THEN [self EXCEPT !.board = reset(self.board),
                      !.selected_square = NoSquare,
                      !.last_ai_move = NoMoveYet,
                      !.path = "restarted"]
  ELSE [self EXCEPT !.path = "ignored"]

\* run: event.type == pygame.KEYDOWN, down to the pop or the reset.
KeyDownBegin(self, key) ==
  IF key = "K_u"
    THEN IF Len(self.board.move_stack) >= 1
           THEN [self EXCEPT !.board = pop(self.board), !.path = "undone"]
           ELSE [self EXCEPT !.path = "nothing_to_undo"]
  ELSE IF key = "K_r"
    THEN [self EXCEPT !.board = reset(self.board),
                      !.selected_square = NoSquare,
                      !.last_ai_move = NoMoveYet,
                      !.path = "restarted"]
  ELSE [self EXCEPT !.path = "ignored"]

\* run: after the pop or the reset, the evaluation.
KeyDownEnd(s1, ev) ==
  IF s1.path \in {"undone", "restarted"} THEN UpdateScore(s1, ev) ELSE s1

OnKeyDown(self, key, ev) == KeyDownEnd(KeyDownBegin(self, key), ev)

\* The AI_MOVE_EVENT handler as it would be without "not self.board.is_game_over()".
AiMoveEventUnguarded(self, bm) ==
  ai_move([self EXCEPT !.timer = FALSE, !.ai_move_scheduled = FALSE], bm)

\* run: event.type == AI_MOVE_EVENT, down to ai_move.
AiMoveEventBegin(self, bm) ==
  LET s1 == [self EXCEPT !.timer = FALSE, !.ai_move_scheduled = FALSE]
  IN IF ~is_game_over(s1.board)
       THEN ai_move(s1, bm)
       ELSE [s1 EXCEPT !.path = "game_over"]

\* The AI_MOVE_EVENT handler as it would be without its
\* self.current_score = self.get_evaluation_score().
AiMoveEventEndStale(s1, ev) == s1

\* run: after ai_move, the evaluation.
AiMoveEventEnd(s1, ev) ==
  IF s1.path = "game_over" \/ s1.raised # None THEN s1 ELSE UpdateScore(s1, ev)

OnAiMoveEvent(self, bm, ev) == AiMoveEventEnd(AiMoveEventBegin(self, bm), ev)

\* ------------------------------------------------------------ the inputs
\* The pixel of a pointer press: a point of the square sq, dx to the right
\* of and dy below its top left corner.
PixelIn(sq, dx, dy) ==
  <<square_file(sq) * SQUARE_SIZE + dx, (7 - square_rank(sq)) * SQUARE_SIZE + dy>>

\* Pointer presses: on f2, g2, f3, g4, e7 and e5, and on the evaluation bar.
ClickPos ==
  { PixelIn(13, 0, 0), PixelIn(14, 49, 49), PixelIn(21, 25, 10), PixelIn(30, 1, 48),
    PixelIn(52, 49, 0), PixelIn(36, 30, 30), <<BOARD_SIZE, 10>> }

Keys == {"K_u", "K_r", "K_x"}

VARIABLES
  stockfish,          \* self.stockfish: None or the engine
  board,              \* self.board
  selected_square,    \* self.selected_square
  last_ai_move,       \* self.last_ai_move
  current_score,      \* self.current_score, in hundredths
  ai_move_scheduled,  \* self.ai_move_scheduled
  timer,              \* pygame's AI_MOVE_EVENT timer is armed
  queueAI,            \* AI_MOVE_EVENT events posted, not yet returned by event.get()
  batchAI,            \* AI_MOVE_EVENT events of the batch being iterated
  running,            \* run's local
  pc,                 \* where run is: "start", "for", "done", "raised"
  event,              \* the step last taken: the event handled, the branch its handler took, what it asked
  race                \* where the move-then-undo scenario stands

vars == <<stockfish, board, selected_square, last_ai_move, current_score,
          ai_move_scheduled, timer, queueAI, batchAI, running, pc, event, race>>

\* self, as the handlers take it.
Self ==
  [stockfish |-> stockfish, board |-> board, selected_square |-> selected_square,
   last_ai_move |-> last_ai_move, current_score |-> current_score,
   ai_move_scheduled |-> ai_move_scheduled, timer |-> timer,
   raised |-> None, path |-> None, asked |-> {}]

\* self after a handler; an exception that leaves the handler leaves run.
Becomes(s) ==
  /\ board' = s.board
  /\ selected_square' = s.selected_square
  /\ last_ai_move' = s.last_ai_move
  /\ current_score' = s.current_score
  /\ ai_move_scheduled' = s.ai_move_scheduled
  /\ timer' = s.timer
  /\ pc' = IF s.raised # None THEN "raised" ELSE "for"
  /\ UNCHANGED stockfish

Step(type, arg, s) == [type |-> type, arg |-> arg, path |-> s.path, asked |-> s.asked]

Pending == queueAI + batchAI

\* The advisor's answers a handler draws: those of the calls it makes.
EvalAsked(s) == IF "evaluation" \in s.asked THEN EvalAnswers ELSE {EvalRaises}
MoveAsked(s) == IF "best_move" \in s.asked THEN EngineReplies ELSE {NoMove}

\* ChessGame.__init__
Init ==
  /\ stockfish \in {None, "engine"}
  /\ board = StartBoard
  /\ selected_square = NoSquare
  /\ last_ai_move = NoMoveYet
  /\ current_score = 0
  /\ ai_move_scheduled = FALSE
  /\ timer = FALSE
  /\ queueAI = 0
  /\ batchAI = 0
  /\ running = TRUE
  /\ pc = "start"
  /\ event = [type |-> "init", arg |-> <<>>, path |-> None, asked |-> {}]
  /\ race = "idle"

\* run, before the loop: self.current_score = self.get_evaluation_score(),
\* and the first pygame.event.get().
RunStart ==
  /\ pc = "start"
  /\ \E ev \in EvalAsked(UpdateScore(Self, EvalRaises)) :
       LET s == UpdateScore(Self, ev)
       IN /\ Becomes(s)
          /\ event' = Step("start", <<>>, s)
  /\ UNCHANGED <<queueAI, batchAI, running, race>>

\* The timer posts an AI_MOVE_EVENT: it is armed, and repeats until disarmed.
TimerFire ==
  /\ timer
  /\ pc = "for"
  /\ Pending < MaxPending
  /\ queueAI' = queueAI + 1
  /\ event' = [type |-> "timer", arg |-> <<>>, path |-> None, asked |-> {}]
  /\ race' = IF race = "armed" THEN "idle" ELSE race
  /\ UNCHANGED <<stockfish, board, selected_square, last_ai_move, current_score,
                 ai_move_scheduled, timer, batchAI, running, pc>>

\* event.type == pygame.QUIT.  The close signal is the last of the user's
\* events; AI_MOVE_EVENT events of the same batch are still handled after it.
HandleQuit ==
  /\ pc = "for"
  /\ running
  /\ running' = FALSE
  /\ event' = [type |-> "QUIT", arg |-> <<>>, path |-> None, asked |-> {}]
  /\ race' = "idle"
  /\ UNCHANGED <<stockfish, board, selected_square, last_ai_move, current_score,
                 ai_move_scheduled, timer, queueAI, batchAI, pc>>

\* race: "armed" once a move has armed the countdown with no AI_MOVE_EVENT
\* posted; "undone" once the undo command has popped that move before the
\* timer posted one; "stale" once an AI_MOVE_EVENT has been handled after
\* that undo with no user event in between.
HandleMouseButtonDown ==
  /\ pc = "for"
  /\ running
  /\ \E pos \in ClickPos :
       LET s1 == MouseButtonDownBegin(Self, pos)
       IN \E ev \in EvalAsked(MouseButtonDownEnd(s1, EvalRaises)) :
            LET s == MouseButtonDownEnd(s1, ev)
                armed == s.path = "moved" /\ s.timer /\ s.raised = None
            IN /\ s.path = "moved" => Len(board.move_stack) < MaxPly
               /\ Becomes(s)
               /\ event' = Step("MOUSEBUTTONDOWN", pos, s)
               /\ race' = IF armed /\ Pending = 0 THEN "armed" ELSE "idle"
  /\ UNCHANGED <<queueAI, batchAI, running>>

HandleKeyDown ==
  /\ pc = "for"
  /\ running
  /\ \E key \in Keys :
       LET s1 == KeyDownBegin(Self, key)
       IN \E ev \in EvalAsked(KeyDownEnd(s1, EvalRaises)) :
            LET s == KeyDownEnd(s1, ev)
            IN /\ Becomes(s)
               /\ event' = Step("KEYDOWN", <<key>>, s)
               /\ race' = IF race = "armed" /\ s.path = "undone" /\ s.raised = None
                            THEN "undone" ELSE "idle"
  /\ UNCHANGED <<queueAI, batchAI, running>>

HandleAiMoveEvent ==
  /\ pc = "for"
  /\ batchAI > 0
  /\ batchAI' = batchAI - 1
  /\ \E bm \in MoveAsked(AiMoveEventBegin(Self, NoMove)) :
       LET s1 == AiMoveEventBegin(Self, bm)
       IN \E ev \in EvalAsked(AiMoveEventEnd(s1, EvalRaises)) :
            LET s == AiMoveEventEnd(s1, ev)
            IN /\ s.path = "applied" => Len(board.move_stack) < MaxPly
               /\ Becomes(s)
               /\ event' = Step("AI_MOVE_EVENT", <<>>, s)
               /\ race' = IF race \in {"undone", "stale"} THEN "stale" ELSE "idle"
  /\ UNCHANGED <<queueAI, running>>

\* The for loop has iterated its batch: update_display, clock.tick, the
\* while test and the next pygame.event.get(), which takes what the queue
\* holds; pygame.quit() when the loop ends.
NextBatch ==
  /\ pc = "for"
  /\ batchAI = 0
  /\ ~running \/ queueAI > 0
  /\ pc' = IF running THEN "for" ELSE "done"
  /\ batchAI' = IF running THEN queueAI ELSE 0
  /\ queueAI' = 0
  /\ timer' = IF running THEN timer ELSE FALSE
  /\ event' = [type |-> "batch", arg |-> <<>>, path |-> None, asked |-> {}]
  /\ UNCHANGED <<stockfish, board, selected_square, last_ai_move, current_score,
                 ai_move_scheduled, running, race>>

Next ==
  \/ RunStart
  \/ TimerFire
  \/ HandleQuit
  \/ HandleMouseButtonDown
  \/ HandleKeyDown
  \/ HandleAiMoveEvent
  \/ NextBatch

Spec == Init /\ [][Next]_vars

\* ------------------------------------------------------------- the claims
\* Every step writes event, so event' names the step taken: the event a
\* handler handled and its argument, or the timer's or the loop's own step.
PointerPress == event'.type = "MOUSEBUTTONDOWN"
KeyPress(key) == event'.type = "KEYDOWN" /\ event'.arg = <<key>>
AiMoveHandled == event'.type = "AI_MOVE_EVENT"

\* The candidate move of a second press at pos.
Candidate(pos) == Move(selected_square, square_clicked(pos), None)

\* A press that run takes as the second click of a move.
SecondClick ==
  /\ PointerPress
  /\ ~is_game_over(board)
  /\ event'.arg[1] < BOARD_SIZE /\ event'.arg[2] < BOARD_SIZE
  /\ selected_square # NoSquare

\* C1: when a human move has armed the countdown and the undo command is
\* handled before the timer has fired, the countdown is cancelled: no
\* AI_MOVE_EVENT is handled for it.
C1_UndoCancelsCountdown == race # "stale"

\* C2: handling the restart command leaves the initial position, no selection,
\* no last engine move, and no pending countdown: the timer disarmed and
\* ai_move_scheduled False.
C2_RestartClearsAll ==
  [][KeyPress("K_r") =>
       /\ board' = StartBoard
       /\ selected_square' = NoSquare
       /\ last_ai_move' = NoMoveYet
       /\ ~timer'
       /\ ~ai_move_scheduled']_vars

\* C3: the board changes only by the push of a move that is legal in the
\* position it is pushed onto, by the pop of undo, or by the reset of restart.
C3_OnlyLegalPushes ==
  [][board' # board =>
       \/ /\ Len(board'.move_stack) = Len(board.move_stack) + 1
          /\ LET m == board'.move_stack[Len(board'.move_stack)]
             IN is_legal(board, m) /\ board' = push(board, m)
       \/ /\ KeyPress("K_u")
          /\ Len(board.move_stack) >= 1
          /\ board' = pop(board)
       \/ /\ KeyPress("K_r")
          /\ board' = reset(board)]_vars

\* An engine move has just been pushed on top of a human move.
C3_Witness ==
  /\ event.type = "AI_MOVE_EVENT"
  /\ event.path = "applied"
  /\ Len(board.move_stack) >= 2
  /\ last_ai_move = board.move_stack[Len(board.move_stack)]

\* C4: whatever the advisor does (unavailable, raises, no move, an illegal
\* move, a malformed move string, a malformed evaluation record), no exception
\* leaves run, and run ends only once a quit has been handled.
C4_LoopSurvivesAdvisor ==
  /\ pc # "raised"
  /\ pc = "done" => ~running

\* C5: each armed countdown has at most one AI_MOVE_EVENT handled, so at most
\* one engine move applied: an AI_MOVE_EVENT is handled only while the
\* countdown it belongs to is armed, and handling it disarms the countdown.
C5_OneEventPerCountdown ==
  [][AiMoveHandled => timer /\ ~timer']_vars

\* C6: a second click whose candidate move is legal pushes exactly that move,
\* hands the move to the other side, clears the selection, recomputes the
\* evaluation (the handler asks the advisor and returns), and arms the
\* countdown exactly when the new position is not game over.
C6_LegalSecondClick ==
  [][(SecondClick /\ is_legal(board, Candidate(event'.arg))) =>
       /\ board' = push(board, Candidate(event'.arg))
       /\ board'.turn = ~board.turn
       /\ selected_square' = NoSquare
       /\ pc' = "for"
       /\ stockfish # None => "evaluation" \in event'.asked
       /\ IF is_game_over(board')
            THEN timer' = timer /\ ai_move_scheduled' = ai_move_scheduled
            ELSE timer' /\ ai_move_scheduled']_vars

\* C7: a second click (a press on the board with a square selected and the
\* game not over) whose candidate move is not legal leaves the board
\* unchanged, clears the selection, and arms no countdown.
C7_IllegalSecondClick ==
  [][(SecondClick /\ ~is_legal(board, Candidate(event'.arg))) =>
       /\ board' = board
       /\ selected_square' = NoSquare
       /\ timer' = timer
       /\ ai_move_scheduled' = ai_move_scheduled]_vars

\* An illegal second click has just been handled, with moves on the board.
C7_Witness ==
  /\ event.type = "MOUSEBUTTONDOWN"
  /\ event.path = "invalid"
  /\ selected_square = NoSquare
  /\ Len(board.move_stack) >= 1

C9_PressAtGameOver ==
  [][(PointerPress /\ is_game_over(board)) =>
       UNCHANGED <<board, selected_square, last_ai_move, timer,
                   ai_move_scheduled, queueAI, batchAI>>]_vars

\* A press on the board has just been handled with the game over.
C9_Witness ==
  /\ event.type = "MOUSEBUTTONDOWN"
  /\ event.path = "game_over"
  /\ event.arg[1] < BOARD_SIZE
  /\ is_game_over(board)

\* C10: the undo command with at least one move on the board pops exactly the
\* last move, and afterwards nothing is selected and no countdown is armed.
C10_UndoPopsAndClears ==
  [][(KeyPress("K_u") /\ Len(board.move_stack) >= 1) =>
       /\ board' = pop(board)
       /\ selected_square' = NoSquare
       /\ ~timer'
       /\ ~ai_move_scheduled']_vars

\* C11: handling an AI_MOVE_EVENT disarms the timer; if the game is over when
\* it is handled, the advisor is asked neither for a move nor for an
\* evaluation, and the board and the last engine move are unchanged.
C11_TimerAtGameOver ==
  [][AiMoveHandled =>
       /\ ~timer'
       /\ is_game_over(board) =>
            /\ event'.asked = {}
            /\ board' = board
            /\ last_ai_move' = last_ai_move
            /\ current_score' = current_score]_vars

\* An AI_MOVE_EVENT has just been handled with the engine there and the game over.
C11_Witness ==
  /\ event.type = "AI_MOVE_EVENT"
  /\ event.path = "game_over"
  /\ stockfish # None
  /\ is_game_over(board)
  /\ ~timer

\* ------------------------------------------- get_evaluation_score alone
\* Largest centipawn value, and longest mate, the advisor answers with.
MaxCp == 700
MaxMate == 3

\* An evaluation of a type that is neither "cp" nor "mate".
OtherType == [raises |-> FALSE, type |-> "other", value |-> 0]

\* What get_evaluation() is made to answer: it raises, or it returns a
\* centipawn value, a mate value, a record of another type, or a record
\* without "type".
EvalInputs ==
  {EvalRaises, OtherType, NoType}
    \cup {Cp(v) : v \in (0 - MaxCp) .. MaxCp}
    \cup {Mate(n) : n \in (0 - MaxMate) .. MaxMate}

\* A game just constructed, and the answer its first evaluation will get.
InitEval ==
  /\ stockfish \in {None, "engine"}
  /\ board = StartBoard
  /\ selected_square = NoSquare
  /\ last_ai_move = NoMoveYet
  /\ current_score = 0
  /\ ai_move_scheduled = FALSE
  /\ timer = FALSE
  /\ queueAI = 0
  /\ batchAI = 0
  /\ running = TRUE
  /\ pc = "start"
  /\ event \in {[type |-> "evaluation", arg |-> ev, path |-> None, asked |-> {}] :
                  ev \in EvalInputs}
  /\ race = "idle"

\* self.current_score = self.get_evaluation_score(), the advisor answering event.arg.
GetEvaluationScore ==
  /\ pc = "start"
  /\ event.type = "evaluation"
  /\ LET r == get_evaluation_score(Self, event.arg)
     IN /\ current_score' = r.score
        /\ pc' = IF r.raised # None THEN "raised" ELSE "for"
  /\ UNCHANGED <<stockfish, board, selected_square, last_ai_move, ai_move_scheduled,
                 timer, queueAI, batchAI, running, event, race>>

NextEval == GetEvaluationScore

SpecEval == InitEval /\ [][NextEval]_vars

\* C12: for every advisor result that is a centipawn value, a mate value, a
\* record of another type, an error, or no advisor at all, the score (in
\* hundredths) lies in -500 .. 500; a centipawn value v gives v cut to that
\* range, a mate gives 500 or -500 by its sign, and no advisor or an error
\* gives 0.
C12_EvaluationClamp ==
  (pc = "for" /\ event.type = "evaluation") =>
    LET ev == event.arg
        answered == stockfish # None /\ ~ev.raises
    IN /\ current_score >= 0 - 500
       /\ current_score <= 500
       /\ ~answered => current_score = 0
       /\ (answered /\ ev.type = "cp") =>
            current_score = (IF ev.value > 500 THEN 500
                             ELSE IF ev.value < 0 - 500 THEN 0 - 500
                             ELSE ev.value)
       /\ (answered /\ ev.type = "mate") =>
            /\ current_score \in {500, 0 - 500}
            /\ ev.value > 0 => current_score = 500
            /\ ev.value < 0 => current_score = 0 - 500
       /\ (answered /\ ev.type = "other") => current_score = 0

\* The largest centipawn value has been scored, and cut to 5.0.
C12_Witness ==
  /\ pc = "for"
  /\ event.type = "evaluation"
  /\ stockfish # None
  /\ event.arg = Cp(MaxCp)
  /\ current_score = 500

\* ------------------------------------------------ the pixel mappings alone
\* A game just constructed, and either a square to highlight and press at
\* its corner, or a pixel of the board to press.
InitPixel ==
  /\ stockfish = None
  /\ board = StartBoard
  /\ selected_square = NoSquare
  /\ last_ai_move = NoMoveYet
  /\ current_score = 0
  /\ ai_move_scheduled = FALSE
  /\ timer = FALSE
  /\ queueAI = 0
  /\ batchAI = 0
  /\ running = TRUE
  /\ pc = "start"
  /\ event \in
       {[type |-> "highlight", arg |-> <<s>>, path |-> None, asked |-> {}] :
          s \in SQUARES}
       \cup {[type |-> "press", arg |-> <<x, y>>, path |-> None, asked |-> {}] :
               x \in 0 .. BOARD_SIZE - 1, y \in 0 .. BOARD_SIZE - 1}
  /\ race = "idle"

\* The square pressed at the corner highlight_square gives the square event.arg[1].
PressAtHighlight ==
  /\ pc = "start"
  /\ event.type = "highlight"
  /\ selected_square' = square_clicked(highlight_square(event.arg[1]))
  /\ pc' = "for"
  /\ UNCHANGED <<stockfish, board, last_ai_move, current_score, ai_move_scheduled,
                 timer, queueAI, batchAI, running, event, race>>

\* The square pressed at the pixel event.arg.
PressAtPixel ==
  /\ pc = "start"
  /\ event.type = "press"
  /\ event.arg[1] < BOARD_SIZE /\ event.arg[2] < BOARD_SIZE
  /\ selected_square' = square_clicked(event.arg)
  /\ pc' = "for"
  /\ UNCHANGED <<stockfish, board, last_ai_move, current_score, ai_move_scheduled,
                 timer, queueAI, batchAI, running, event, race>>

NextPixel == PressAtHighlight \/ PressAtPixel

SpecPixel == InitPixel /\ [][NextPixel]_vars

\* C15: for every square s of 0 .. 63, the top left pixel highlight_square
\* gives s maps back to s under the press mapping; and every pixel of the
\* board maps to a square of 0 .. 63.
C15_PixelSquareRoundTrip ==
  pc = "for" =>
    /\ event.type = "highlight" => selected_square = event.arg[1]
    /\ event.type = "press" => selected_square \in SQUARES

\* The corner of h8 has been pressed, and the last pixel of the board.
C15_Witness ==
  /\ pc = "for"
  /\ \/ event.type = "highlight" /\ event.arg = <<63>> /\ selected_square = 63
     \/ event.type = "press" /\ event.arg = <<BOARD_SIZE - 1, BOARD_SIZE - 1>>
          /\ selected_square = 7

\* ------------------------------- the advisor a function of the position
\* One advisor whose evaluation depends on the position alone: mate in 0 once
\* the game is over, a record without "type" after g4 played before e5, an
\* error with a white pawn on f3 and black to move, centipawns otherwise
\* (more than 500 once a black pawn stands on e5).
AdvisorEval(b) ==
  IF b.over THEN Mate(0)
  ELSE IF b.pieces[30] = "P" /\ b.pieces[36] # "p" THEN NoType
  ELSE IF b.pieces[21] = "P" /\ b.turn = BLACK THEN EvalRaises
  ELSE Cp((IF b.turn = WHITE THEN 30 ELSE 0 - 40)
          + (IF b.pieces[36] = "p" THEN 600 ELSE 0))

RunStartFn ==
  /\ pc = "start"
  /\ LET s == UpdateScore(Self, AdvisorEval(board))
     IN /\ Becomes(s)
        /\ event' = Step("start", <<>>, s)
  /\ UNCHANGED <<queueAI, batchAI, running, race>>

HandleMouseButtonDownFn ==
  /\ pc = "for"
  /\ running
  /\ \E pos \in ClickPos :
       LET s1 == MouseButtonDownBegin(Self, pos)
           s == MouseButtonDownEnd(s1, AdvisorEval(s1.board))
       IN /\ s.path = "moved" => Len(board.move_stack) < MaxPly
          /\ Becomes(s)
          /\ event' = Step("MOUSEBUTTONDOWN", pos, s)
  /\ UNCHANGED <<queueAI, batchAI, running, race>>

HandleKeyDownFn ==
  /\ pc = "for"
  /\ running
  /\ \E key \in Keys :
       LET s1 == KeyDownBegin(Self, key)
           s == KeyDownEnd(s1, AdvisorEval(s1.board))
       IN /\ Becomes(s)
          /\ event' = Step("KEYDOWN", <<key>>, s)
  /\ UNCHANGED <<queueAI, batchAI, running, race>>

HandleAiMoveEventFn ==
  /\ pc = "for"
  /\ batchAI > 0
  /\ batchAI' = batchAI - 1
  /\ \E bm \in MoveAsked(AiMoveEventBegin(Self, NoMove)) :
       LET s1 == AiMoveEventBegin(Self, bm)
           s == AiMoveEventEnd(s1, AdvisorEval(s1.board))
       IN /\ s.path = "applied" => Len(board.move_stack) < MaxPly
          /\ Becomes(s)
          /\ event' = Step("AI_MOVE_EVENT", <<>>, s)
  /\ UNCHANGED <<queueAI, running, race>>

NextFn ==
  \/ RunStartFn
  \/ TimerFire
  \/ HandleQuit
  \/ HandleMouseButtonDownFn
  \/ HandleKeyDownFn
  \/ HandleAiMoveEventFn
  \/ NextBatch

SpecFn == Init /\ [][NextFn]_vars

\* C13: the advisor being a function of the position, whenever run is between
\* two events, each handled in full, current_score is the clamped evaluation
\* of the position the board is in.
C13_ScoreIsCurrent ==
  pc = "for" => current_score = get_evaluation_score(Self, AdvisorEval(board)).score

\* An engine move has just been applied and the score is that of the new
\* position: black's pawn on e5, more than 5.0, cut to 5.0.
C13_Witness ==
  /\ pc = "for"
  /\ stockfish # None
  /\ event.type = "AI_MOVE_EVENT"
  /\ event.path = "applied"
  /\ board.pieces[36] = "p"
  /\ current_score = 500

\* C14: the undo command with no move on the board changes neither the board,
\* the selection, the last engine move, the score nor the pending countdown,
\* and raises nothing.
C14_UndoOnEmptyHistory ==
  [][(KeyPress("K_u") /\ Len(board.move_stack) = 0) =>
       /\ UNCHANGED <<board, selected_square, last_ai_move, current_score, timer,
                      ai_move_scheduled, queueAI, batchAI>>
       /\ pc' = "for"]_vars

\* The undo command has just been handled with no move on the board, a square
\* selected and the timer armed.
C14_Witness ==
  /\ event.type = "KEYDOWN"
  /\ event.arg = <<"K_u">>
  /\ event.path = "nothing_to_undo"
  /\ Len(board.move_stack) = 0
  /\ selected_square # NoSquare
  /\ timer

\* ------------------------------------------------------------- fairness
\* The timer, once armed, posts its event; the loop, every tick, fetches what
\* the queue holds; and the for loop handles each event it fetched.
FairSpec ==
  /\ Spec
  /\ WF_vars(TimerFire)
  /\ WF_vars(NextBatch)
  /\ WF_vars(HandleAiMoveEvent)

\* A human move has just been applied, has left the game not over, and has
\* armed the countdown.
EngineTurnArmed ==
  /\ pc = "for"
  /\ event.type = "MOUSEBUTTONDOWN"
  /\ event.path = "moved"
  /\ ~is_game_over(board)
  /\ timer
  /\ ai_move_scheduled

\* An AI_MOVE_EVENT has been handled: the countdown is not pending, and the
\* engine move has been applied or the turn skipped.
EngineTurnResolved ==
  /\ event.type = "AI_MOVE_EVENT"
  /\ event.path \in {"applied", "illegal", "no_move", "no_engine", "game_over"}
  /\ ~timer
  /\ ~ai_move_scheduled

\* The undo command, the restart command or the close signal has been handled.
UndoRestartOrQuit ==
  \/ event.type = "QUIT"
  \/ event.type = "KEYDOWN" /\ event.arg \in {<<"K_u">>, <<"K_r">>}

\* C16: under the fairness of FairSpec, whenever a human move has armed the
\* countdown, then, unless undo, restart or quit comes first, the engine turn
\* is eventually resolved: its AI_MOVE_EVENT is handled, the countdown is no
\* longer pending, and the engine move has been applied or skipped.
C16_EngineTurnResolved ==
  EngineTurnArmed ~> (EngineTurnResolved \/ UndoRestartOrQuit)

\* The engine's turn is skipped: ai_move ran and pushed nothing, the advisor
\* being unavailable, raising, returning no move or returning an illegal move.
EngineTurnSkipped ==
  /\ AiMoveHandled
  /\ event'.path \in {"no_engine", "no_move", "illegal"}

\* C17: when the engine's turn is skipped, the board and the last engine move
\* are unchanged, the countdown is disarmed and not armed again, and run goes
\* on to the next event, so that the human may move again.
C17_SkippedEngineTurn ==
  [][EngineTurnSkipped =>
       /\ board' = board
       /\ last_ai_move' = last_ai_move
       /\ ~timer'
       /\ ~ai_move_scheduled'
       /\ pc' = "for"]_vars

\* C18: while a countdown is pending, a pointer press changes neither the
\* board nor the selected square.
C18_PressDuringCountdown ==
  [][(PointerPress /\ timer /\ ai_move_scheduled) =>
       /\ board' = board
       /\ selected_square' = selected_square]_vars

\* C19: between events, a selected square holds a piece of the side to move.
C19_SelectionIsMovers ==
  (pc = "for" /\ selected_square # NoSquare) =>
    LET piece == piece_at(board, selected_square)
    IN IF piece = None THEN FALSE ELSE color_of(piece) = board.turn

\* C20: as long as run has not ended, ai_move_scheduled is true exactly when
\* the AI_MOVE_EVENT timer is armed.
C20_FlagIsTimer ==
  pc # "done" => (ai_move_scheduled <=> timer)

\* The restart command has just been handled during a countdown: it left the
\* flag and the timer as they were, both set.
C20_Witness ==
  /\ pc = "for"
  /\ event.type = "KEYDOWN"
  /\ event.path = "restarted"
  /\ ai_move_scheduled
  /\ timer

====
